---- MODULE Spec2Model ----
(***************************************************************************)
(* Model of scraping/index_data_scraper.py: the index oracle pipeline      *)
(* (IndexExtractor -> DynamicFeeCalculator -> BlockchainBridge ->          *)
(* DataStorageManager) driven by IndexOracleSystem.run_oracle_update.      *)
(*                                                                         *)
(* Index values are Python floats.  A finite value is represented by the   *)
(* record Fin(n), n its number of hundredths (1500.0 is Fin(150000)); the   *)
(* three non-finite floats are the records NaN, PosInf and NegInf.         *)
(***************************************************************************)
EXTENDS Integers, Sequences, FiniteSets, TLC

(***************************************************************************)
(* Resolution of the model: Scale units to one index point, WeiPerGwei     *)
(* gas-price units to one gwei.                                            *)
(***************************************************************************)
Scale == 100

WeiPerGwei == 100

(***************************************************************************)
(* OracleConfig                                                            *)
(***************************************************************************)
INDEX_BASELINE == 1500

MIN_FEE_RATE == 10

MAX_FEE_RATE == 100

DEFAULT_FEE_RATE == 50

(***************************************************************************)
(* Bounds of the fee-calculator input grid (in units of the resolution).   *)
(***************************************************************************)
GridStep == 1392

GridMax == 232

Near == 2

\* A Python float: a finite value (val hundredths) or one of the three
\* non-finite values (val unused, kept 0).
Fin(n) == [cls |-> "finite", val |-> n]

NaN == [cls |-> "nan", val |-> 0]

PosInf == [cls |-> "inf", val |-> 0]

NegInf == [cls |-> "-inf", val |-> 0]

NonFinite == {NaN, PosInf, NegInf}

IsFinite(x) == x.cls = "finite"

\* baseline * 0.33 and baseline * 2 as the float products evaluate
\* (1500.0 * 0.33 is exactly 495.0 in binary64).
lower_bound == (INDEX_BASELINE * Scale * 33) \div 100

upper_bound == INDEX_BASELINE * 2 * Scale

\* Exact ties of the interpolation (fee = k + 0.5) on the hundredths grid.
TiePoints == {53675, 62025, 187275, 295825}

FiniteInputs ==
    { k * GridStep : k \in (-2)..GridMax }
    \cup { lower_bound + d : d \in (-Near)..Near }
    \cup { INDEX_BASELINE * Scale + d : d \in (-Near)..Near }
    \cup { upper_bound + d : d \in (-Near)..Near }
    \cup { d : d \in (-Near)..Near }
    \cup TiePoints

FeeInputs == NonFinite \cup { Fin(n) : n \in FiniteInputs }

(***************************************************************************)
(* Python float comparisons against a finite number k: every comparison    *)
(* with nan is False.                                                      *)
(***************************************************************************)
FloatLt(x, k) == IF IsFinite(x) THEN x.val < k ELSE x.cls = "-inf"

FloatGt(x, k) == IF IsFinite(x) THEN x.val > k ELSE x.cls = "inf"

FloatLe(x, k) == IF IsFinite(x) THEN x.val <= k ELSE x.cls = "-inf"

FloatGe(x, k) == IF IsFinite(x) THEN x.val >= k ELSE x.cls = "inf"

\* Python min(a, b) returns b only when b < a;  max(a, b) returns b only
\* when b > a.  a is a finite number, b a float.
PyMin(a, b) == IF FloatLt(b, a) THEN b ELSE Fin(a)

PyMax(a, b) == IF FloatGt(b, a) THEN b ELSE Fin(a)

\* round(num / den) for den > 0 and num >= 0: round half to even.
PyRound(num, den) ==
    LET q == num \div den
        r == num % den
    IN  IF 2 * r < den THEN q
        ELSE IF 2 * r > den THEN q + 1
        ELSE IF q % 2 = 0 THEN q ELSE q + 1

\* The interpolation with the slope taken by integer division.
InterpolateNum_floor_slope(index_value) ==
    IF IsFinite(index_value)
    THEN LET den == upper_bound - lower_bound
             slope == (MAX_FEE_RATE - MIN_FEE_RATE) \div (den \div Scale)
         IN  Fin(MAX_FEE_RATE * den - (index_value.val - lower_bound) * slope * (den \div Scale))
    ELSE IF index_value.cls = "inf" THEN NegInf
    ELSE IF index_value.cls = "-inf" THEN PosInf
    ELSE NaN

\* fee_rate of line 311 as a float whose val is the numerator over
\* (upper_bound - lower_bound); arithmetic on nan gives nan, on an infinite
\* index the opposite infinity.  In calculate_fee_rate only values that
\* passed the three guards get here: nan or a finite value in the band.
InterpolateNum(index_value) ==
    IF IsFinite(index_value)
    THEN Fin(MAX_FEE_RATE * (upper_bound - lower_bound)
             - (index_value.val - lower_bound) * (MAX_FEE_RATE - MIN_FEE_RATE))
    ELSE IF index_value.cls = "inf" THEN NegInf
    ELSE IF index_value.cls = "-inf" THEN PosInf
    ELSE NaN

\* The first clamp left out.
Clamp_missing(fee_rate, den) == fee_rate

\* Line 314: max(min_fee, min(max_fee, fee_rate)), on numerators over den.
Clamp(fee_rate, den) == PyMax(MIN_FEE_RATE * den, PyMin(MAX_FEE_RATE * den, fee_rate))

\* Lines 317-321: the boundary check on the rounded integer.
BoundaryCheck(fee_rate_int) ==
    IF fee_rate_int < MIN_FEE_RATE THEN MIN_FEE_RATE
    ELSE IF fee_rate_int > MAX_FEE_RATE THEN MAX_FEE_RATE
    ELSE fee_rate_int

\* Lines 313-323 step by step: the clamped value, the rounded integer and
\* the integer after the second boundary check.
ClampTrace(fee_rate, den) ==
    LET clamped == Clamp(fee_rate, den)
        fee_rate_int == PyRound(clamped.val, den)
    IN  [fee_rate |-> fee_rate, clamped |-> clamped, fee_rate_int |-> fee_rate_int,
         checked |-> BoundaryCheck(fee_rate_int)]

\* Lines 313-323: clamp, round, second boundary check.
EnforceBoundaries(fee_rate, den) == ClampTrace(fee_rate, den).checked

\* The calculator answering 0 to an invalid index.
calculate_fee_rate_zero_default(index_value) ==
    IF FloatLe(index_value, 0) THEN 0
    ELSE IF FloatGe(index_value, upper_bound) THEN MIN_FEE_RATE
    ELSE IF FloatLe(index_value, lower_bound) THEN MAX_FEE_RATE
    ELSE EnforceBoundaries(InterpolateNum(index_value), upper_bound - lower_bound)

\* The calculator with the two extreme answers exchanged.
calculate_fee_rate_direct(index_value) ==
    IF FloatLe(index_value, 0) THEN DEFAULT_FEE_RATE
    ELSE IF FloatGe(index_value, upper_bound) THEN MAX_FEE_RATE
    ELSE IF FloatLe(index_value, lower_bound) THEN MIN_FEE_RATE
    ELSE EnforceBoundaries(InterpolateNum(index_value), upper_bound - lower_bound)

\* The calculator with the answer of the first extreme copied to the second.
calculate_fee_rate_copied_extreme(index_value) ==
    IF FloatLe(index_value, 0) THEN DEFAULT_FEE_RATE
    ELSE IF FloatGe(index_value, upper_bound) THEN MIN_FEE_RATE
    ELSE IF FloatLe(index_value, lower_bound) THEN MIN_FEE_RATE
    ELSE EnforceBoundaries(InterpolateNum(index_value), upper_bound - lower_bound)

\* DynamicFeeCalculator.calculate_fee_rate
calculate_fee_rate(index_value) ==
    IF FloatLe(index_value, 0) THEN DEFAULT_FEE_RATE
    ELSE IF FloatGe(index_value, upper_bound) THEN MIN_FEE_RATE
    ELSE IF FloatLe(index_value, lower_bound) THEN MAX_FEE_RATE
    ELSE EnforceBoundaries(InterpolateNum(index_value), upper_bound - lower_bound)

(***************************************************************************)
(* OracleConfig: retry, session and blockchain settings.                   *)
(***************************************************************************)
MAX_RETRIES == 3

MIN_DELAY == 3

MAX_DELAY == 8

SESSION_DURATION_HOURS == 168

BLOCKCHAIN_RETRY_COUNT == 3

MAX_GAS_PRICE_GWEI == 50

GAS_LIMIT == 200000

CHAIN_ID == 11155111

\* w3.to_wei(n, 'gwei')
to_wei(gwei) == gwei * WeiPerGwei

(***************************************************************************)
(* Bounds of the pipeline model.                                           *)
(***************************************************************************)
MaxRuns == 2

\* runs in the specification with fairness
MaxLiveRuns == 1

\* Hours that may pass between two runs, and the oldest session followed.
ClockSteps == {84, 168}

MaxAge == 336

\* Gas prices the network may report: below, at, just above and far above
\* the cap.
GasPrices == {to_wei(20), to_wei(MAX_GAS_PRICE_GWEI), to_wei(MAX_GAS_PRICE_GWEI) + 1, to_wei(80)}

\* Python None, '' and the hex form of the n-th transaction hash.
None == "None"

EmptyStr == ""

\* The return values of run_oracle_update; with None for "has not returned"
\* they are values of one kind.
PyTrue == "True"

PyFalse == "False"

TxHashHex(n) == <<"0x01", "0x02", "0x03", "0x04", "0x05", "0x06",
                   "0x07", "0x08", "0x09", "0x0a", "0x0b", "0x0c">>[n]

(***************************************************************************)
(* The text of the index element and its conversion (lines 492-497).       *)
(* A text is a sequence of one-character strings.                          *)
(***************************************************************************)
ElementTexts ==
    { <<"1", ",", "5", "0", "0">>,
      <<" ", "1", ",", "5", "0", "0", ".", "2", "5", " ">>,
      <<"4", "9", "5">>,
      <<"3", " ", "0", "0", "0">>,
      <<"9", "9", "9", ".", "9">>,
      <<"0">>,
      <<"-", "5", ".", "5">>,
      <<"n", "a", "n">>,
      <<"i", "n", "f">>,
      <<"N", "/", "A">>,
      <<>> }

Digits == {"0", "1", "2", "3", "4", "5", "6", "7", "8", "9"}

DigitVal(c) == CASE c = "0" -> 0 [] c = "1" -> 1 [] c = "2" -> 2 [] c = "3" -> 3
                 [] c = "4" -> 4 [] c = "5" -> 5 [] c = "6" -> 6 [] c = "7" -> 7
                 [] c = "8" -> 8 [] c = "9" -> 9

RECURSIVE LStrip(_)
LStrip(t) == IF t # <<>> /\ Head(t) = " " THEN LStrip(Tail(t)) ELSE t

RECURSIVE RStrip(_)
RStrip(t) == IF t # <<>> /\ t[Len(t)] = " " THEN RStrip(SubSeq(t, 1, Len(t) - 1)) ELSE t

\* str.strip()
Strip(t) == RStrip(LStrip(t))

\* str.replace(c, '')
Remove(t, c) == SelectSeq(t, LAMBDA x : x # c)

RECURSIVE DigitsVal(_)
DigitsVal(t) == IF t = <<>> THEN 0 ELSE DigitsVal(SubSeq(t, 1, Len(t) - 1)) * 10 + DigitVal(t[Len(t)])

AllDigits(t) == \A i \in 1..Len(t) : t[i] \in Digits

ParseError == [cls |-> "error", val |-> 0]

RECURSIVE Pow10(_)
Pow10(n) == IF n = 0 THEN 1 ELSE 10 * Pow10(n - 1)

\* float() of an unsigned text: digits with an optional fraction (digits
\* below the resolution of the model are dropped), "nan" or "inf".
ParseUnsigned(t) ==
    LET dots == { i \in 1..Len(t) : t[i] = "." }
    IN  IF t = <<"n", "a", "n">> THEN NaN
        ELSE IF t = <<"i", "n", "f">> THEN PosInf
        ELSE IF dots = {} THEN
            IF t # <<>> /\ AllDigits(t) THEN Fin(DigitsVal(t) * Scale) ELSE ParseError
        ELSE IF Cardinality(dots) > 1 THEN ParseError
        ELSE LET d == CHOOSE i \in dots : TRUE
                 ip == SubSeq(t, 1, d - 1)
                 fp == SubSeq(t, d + 1, Len(t))
             IN  IF Len(ip) + Len(fp) = 0 \/ ~AllDigits(ip) \/ ~AllDigits(fp)
                 THEN ParseError
                 ELSE Fin(DigitsVal(ip) * Scale + (DigitsVal(fp) * Scale) \div Pow10(Len(fp)))

Negate(x) ==
    IF x.cls = "finite" THEN Fin(-x.val)
    ELSE IF x.cls = "inf" THEN NegInf
    ELSE x

\* float(index_clean)
ParseFloat(t) ==
    IF t # <<>> /\ Head(t) = "-" THEN Negate(ParseUnsigned(Tail(t)))
    ELSE IF t # <<>> /\ Head(t) = "+" THEN ParseUnsigned(Tail(t))
    ELSE ParseUnsigned(t)

\* index_text.replace(',', '').replace(' ', '')
CleanText(index_text) == Remove(Remove(index_text, ","), " ")

\* int(index_value): truncation toward zero of a finite float.
IntTrunc(x) == IF x.val >= 0 THEN x.val \div Scale ELSE -((-x.val) \div Scale)

\* get_fee_explanation: the trend classification.
get_fee_explanation(index_value) ==
    IF FloatGe(index_value, INDEX_BASELINE * Scale)
    THEN IF FloatGe(index_value, (INDEX_BASELINE * Scale * 3) \div 2)
         THEN "INDEX VERY HIGH" ELSE "INDEX HIGH"
    ELSE IF FloatLe(index_value, (INDEX_BASELINE * Scale) \div 2)
         THEN "INDEX VERY LOW" ELSE "INDEX LOW"

VARIABLES
    index_a, index_b, fee_a, fee_b, fee_pc,   \* fee calculator alone
    clamp_a,            \* the boundary enforcement applied to the value drawn as index_a
    config,             \* WEB3_AVAILABLE, RPC_URL, PRIVATE_KEY, CONTRACT_ADDRESS
    bridge,             \* BlockchainBridge: enabled, w3
    init_calls,         \* network calls made by _initialize_web3
    current_session,    \* Level5AntiDetection: serial number of the session, 0 for None
    session_age,        \* hours since session_start_time
    pc,                 \* position of the oracle system
    runs,               \* run_oracle_update invocations so far
    run_result,         \* return value of the latest run_oracle_update
    attempt,            \* loop variable of extract_index_with_retry
    fetch_calls,        \* human_delay / request / sleep calls of this extraction
    delay,              \* seconds human_delay is sleeping before the request, 0 outside it
    fetch_error,        \* what the current attempt raised
    result,             \* return value of extract_index_with_retry
    fee_rate,           \* run_oracle_update local
    bc_attempt,         \* loop variable of send_fee_update
    bc_calls,           \* network calls and sleeps of this send_fee_update
    gas_price,          \* w3.eth.gas_price read in this attempt
    transaction,        \* transaction built in this attempt
    receipt,            \* how the confirmation wait ended
    chain_nonce,        \* transaction count of the oracle account
    submitted,          \* transactions send_raw_transaction accepted in this call
    tx_count,           \* transactions the network accepted from the oracle so far
    blockchain_tx_hash, \* return value of send_fee_update
    blockchain_status,  \* run_oracle_update local
    saved,              \* records handed to save_oracle_data in this run
    stored,             \* save_oracle_data calls so far
    due                 \* the trigger time has come and no run has taken it up yet

feeVars == <<index_a, index_b, fee_a, fee_b, fee_pc, clamp_a>>

cfgVars == <<config, bridge, init_calls>>

sessVars == <<current_session, session_age>>

fetchVars == <<attempt, fetch_calls, delay, fetch_error, result>>

bcVars == <<bc_attempt, bc_calls, gas_price, transaction, submitted, receipt, blockchain_tx_hash>>

chainVars == <<chain_nonce, tx_count>>

runVars == <<runs, run_result, fee_rate, blockchain_status, saved, stored>>

vars == <<feeVars, cfgVars, sessVars, pc, fetchVars, bcVars, chainVars, runVars, due>>

NoTx == [fee_rate |-> 0, index_value |-> 0, gasPrice |-> 0, nonce |-> 0, gas |-> 0, chainId |-> 0]

\* extract_index_with_retry returns None (here the empty tuple) or the
\* pair (index_value, index_text).
NoneResult == <<>>

max_gas_price == to_wei(MAX_GAS_PRICE_GWEI)

\* What the source may answer to one GET.
Responses ==
    { [kind |-> k, text |-> <<>>] : k \in {"network_error", "http_error", "no_element"} }
    \cup { [kind |-> "html", text |-> t] : t \in ElementTexts }

Configs == [web3 : BOOLEAN, rpc_url : {"", "YOUR_API_KEY", "url"},
            private_key : {"", "key"}, contract_address : {"", "addr"}]

NoTrace == [fee_rate |-> Fin(0), clamped |-> Fin(0), fee_rate_int |-> 0, checked |-> 0]

\* State of the objects that belong to the other specification.
PipelineIdle ==
    /\ due = FALSE
    /\ bridge = [enabled |-> FALSE, w3 |-> FALSE]
    /\ init_calls = 0
    /\ current_session = 0
    /\ session_age = 0
    /\ runs = 0
    /\ run_result = None
    /\ attempt = 0
    /\ fetch_calls = <<>>
    /\ delay = 0
    /\ fetch_error = None
    /\ result = NoneResult
    /\ fee_rate = 0
    /\ bc_attempt = 0
    /\ bc_calls = <<>>
    /\ gas_price = 0
    /\ transaction = NoTx
    /\ receipt = None
    /\ chain_nonce = 0
    /\ submitted = <<>>
    /\ tx_count = 0
    /\ blockchain_tx_hash = None
    /\ blockchain_status = None
    /\ saved = <<>>
    /\ stored = 0

(***************************************************************************)
(* Fee calculator alone: two index values are drawn and the calculator is  *)
(* applied to each.                                                        *)
(***************************************************************************)
InitFee ==
    /\ index_a \in FeeInputs
    /\ index_b \in FeeInputs
    /\ fee_a = 0
    /\ fee_b = 0
    /\ fee_pc = "input"
    /\ clamp_a = NoTrace
    /\ config = [web3 |-> FALSE, rpc_url |-> "", private_key |-> "", contract_address |-> ""]
    /\ pc = "off"
    /\ PipelineIdle

CalcFeeA ==
    /\ fee_pc = "input"
    /\ fee_a' = calculate_fee_rate(index_a)
    /\ clamp_a' = ClampTrace(InterpolateNum(index_a), upper_bound - lower_bound)
    /\ fee_pc' = "second"
    /\ UNCHANGED <<index_a, index_b, fee_b>>
    /\ UNCHANGED <<due, cfgVars, sessVars, pc, fetchVars, bcVars, chainVars, runVars>>

CalcFeeB ==
    /\ fee_pc = "second"
    /\ fee_b' = calculate_fee_rate(index_b)
    /\ fee_pc' = "done"
    /\ UNCHANGED <<index_a, index_b, fee_a, clamp_a>>
    /\ UNCHANGED <<due, cfgVars, sessVars, pc, fetchVars, bcVars, chainVars, runVars>>

NextFee == CalcFeeA \/ CalcFeeB

SpecFee == InitFee /\ [][NextFee]_vars

(***************************************************************************)
(* The oracle system.                                                      *)
(***************************************************************************)
Init ==
    /\ config \in Configs
    /\ pc = "new"
    /\ PipelineIdle
    /\ index_a = Fin(0)
    /\ index_b = Fin(0)
    /\ fee_a = 0
    /\ fee_b = 0
    /\ fee_pc = "off"
    /\ clamp_a = NoTrace

\* The parameter check without the contract address.
ConfigMissing_ignores_address(c) ==
    \/ c.rpc_url = "" \/ c.rpc_url = "YOUR_API_KEY"
    \/ c.private_key = ""

\* _initialize_web3: TRUE when one of the three required parameters is
\* missing (lines 137-147).
ConfigMissing(c) ==
    \/ c.rpc_url = "" \/ c.rpc_url = "YOUR_API_KEY"
    \/ c.private_key = ""
    \/ c.contract_address = ""

\* IndexOracleSystem.__init__ -> BlockchainBridge.__init__ / _initialize_web3
Construct ==
    /\ pc = "new"
    /\ pc' = "idle"
    /\ IF ~config.web3 \/ ConfigMissing(config)
       THEN /\ bridge' = [enabled |-> FALSE, w3 |-> FALSE]
            /\ init_calls' = 0
       ELSE \E outcome \in {"connected", "not_connected", "provider_error", "account_error"} :
            /\ bridge' = [enabled |-> (outcome = "connected"),
                          w3 |-> (outcome # "provider_error")]
            /\ init_calls' = IF outcome = "provider_error" THEN 0 ELSE 1
    /\ UNCHANGED <<due, feeVars, config, sessVars, fetchVars, bcVars, chainVars, runVars>>

\* The trigger time comes (the daily time of the scheduler, or the "now"
\* argument), whatever the oracle is doing at that moment; no trigger time
\* comes once limit runs have started.
TriggerTime(limit) ==
    /\ ~due
    /\ pc # "new"
    /\ runs < limit
    /\ due' = TRUE
    /\ UNCHANGED <<feeVars, cfgVars, sessVars, pc, fetchVars, bcVars, chainVars, runVars>>

JobDue == TriggerTime(MaxRuns)

JobDueLive == TriggerTime(MaxLiveRuns)

\* Every trigger starting its run in a thread of its own.
SchedulerFree_threaded == pc # "new"

\* The one thread of the program is in the scheduler loop (or in __main__
\* before its only run), not inside run_oracle_update.
SchedulerFree == pc = "idle"

\* schedule.run_pending() / oracle.run_oracle_update(): the run starts some
\* hours after the previous one and runs to its end inside this call; the
\* locals of the invocation start fresh; limit bounds the number of runs.
StartRun(limit) ==
    /\ SchedulerFree
    /\ due
    /\ due' = FALSE
    /\ runs < limit
    /\ IF current_session = 0
       THEN UNCHANGED session_age
       ELSE \E elapsed \in {0} \cup ClockSteps :
            /\ session_age + elapsed <= MaxAge
            /\ session_age' = session_age + elapsed
    /\ runs' = runs + 1
    /\ run_result' = None
    /\ attempt' = 0
    /\ fetch_calls' = <<>>
    /\ delay' = 0
    /\ fetch_error' = None
    /\ result' = NoneResult
    /\ fee_rate' = 0
    /\ bc_attempt' = 0
    /\ bc_calls' = <<>>
    /\ gas_price' = 0
    /\ transaction' = NoTx
    /\ submitted' = <<>>
    /\ receipt' = None
    /\ blockchain_tx_hash' = None
    /\ blockchain_status' = None
    /\ saved' = <<>>
    /\ pc' = "fetch_delay"
    /\ UNCHANGED <<feeVars, cfgVars, current_session, chainVars, stored>>

Trigger == StartRun(MaxRuns)

TriggerLive == StartRun(MaxLiveRuns)

(***************************************************************************)
(* IndexExtractor.extract_index_with_retry                                 *)
(***************************************************************************)
\* random.uniform(MIN_DELAY, MAX_DELAY), in whole seconds
DelaySeconds == MIN_DELAY..MAX_DELAY

\* The human delay made only between retries, not before the first request.
FetchHumanDelay_only_on_retry ==
    /\ pc = "fetch_delay"
    /\ IF attempt = 0
       THEN UNCHANGED <<fetch_calls, delay>>
       ELSE /\ fetch_calls' = Append(fetch_calls, "human_delay")
            /\ delay' \in DelaySeconds
    /\ pc' = "fetch_request"
    /\ UNCHANGED <<due, feeVars, cfgVars, sessVars, attempt, fetch_error, result, bcVars, chainVars, runVars>>

\* anti_detection.human_delay()
FetchHumanDelay ==
    /\ pc = "fetch_delay"
    /\ fetch_calls' = Append(fetch_calls, "human_delay")
    /\ delay' \in DelaySeconds
    /\ pc' = "fetch_request"
    /\ UNCHANGED <<due, feeVars, cfgVars, sessVars, attempt, fetch_error, result, bcVars, chainVars, runVars>>

\* What one attempt does with the response: the error it raises, or the
\* pair it returns.
AttemptOutcome(resp) ==
    IF resp.kind = "network_error" THEN [error |-> "NetworkError", value |-> NoneResult]
    ELSE IF resp.kind = "http_error" THEN [error |-> "HTTPError", value |-> NoneResult]
    ELSE IF resp.kind = "no_element" THEN [error |-> "NotFound", value |-> NoneResult]
    ELSE LET index_text == Strip(resp.text)
             index_value == ParseFloat(CleanText(index_text))
         IN  IF index_value = ParseError
             THEN [error |-> "ParseError", value |-> NoneResult]
             ELSE [error |-> None, value |-> <<index_value, index_text>>]

\* get_session: the stored session is kept unless there is none or its age
\* exceeds session_duration.
NeedsNewSession == current_session = 0 \/ session_age > SESSION_DURATION_HOURS

\* get_session(); session.get ... return index_value, index_text
FetchRequest ==
    /\ pc = "fetch_request"
    /\ IF NeedsNewSession
       THEN /\ current_session' = current_session + 1
            /\ session_age' = 0
       ELSE UNCHANGED sessVars
    /\ \E resp \in Responses :
        LET out == AttemptOutcome(resp)
        IN  /\ fetch_calls' = Append(fetch_calls, "request")
            /\ delay' = 0
            /\ fetch_error' = out.error
            /\ IF out.error = None
               THEN /\ result' = out.value
                    /\ pc' = "fetch_return"
               ELSE /\ result' = result
                    /\ pc' = "fetch_failed"
    /\ UNCHANGED <<due, feeVars, cfgVars, attempt, bcVars, chainVars, runVars>>

\* The loop running one attempt too many.
FetchLoopContinues_off_by_one(a) == a + 1 <= MAX_RETRIES

\* for attempt in range(OracleConfig.MAX_RETRIES): is there a next attempt
FetchLoopContinues(a) == a + 1 < MAX_RETRIES

\* The wait made after the last attempt as well.
RetriesLeft_after_last(a) == a < MAX_RETRIES

\* if attempt < OracleConfig.MAX_RETRIES - 1
RetriesLeft(a) == a < MAX_RETRIES - 1

\* except Exception: sleep RETRY_DELAY unless this was the last attempt, then
\* the next attempt, or return None when the loop is over.
FetchHandleFailure ==
    /\ pc = "fetch_failed"
    /\ fetch_calls' = IF RetriesLeft(attempt) THEN Append(fetch_calls, "sleep") ELSE fetch_calls
    /\ IF FetchLoopContinues(attempt)
       THEN /\ attempt' = attempt + 1
            /\ pc' = "fetch_delay"
            /\ UNCHANGED result
       ELSE /\ result' = NoneResult
            /\ pc' = "fetch_return"
            /\ UNCHANGED attempt
    /\ UNCHANGED <<due, feeVars, cfgVars, sessVars, delay, fetch_error, bcVars, chainVars, runVars>>

(***************************************************************************)
(* IndexOracleSystem.run_oracle_update, after the extraction               *)
(***************************************************************************)
\* The pipeline starting the extraction again when it returned None.
RunNoData_retries ==
    /\ pc = "fetch_return"
    /\ result = NoneResult
    /\ attempt' = 0
    /\ pc' = "fetch_delay"
    /\ UNCHANGED <<due, feeVars, cfgVars, sessVars, fetch_calls, delay, fetch_error, result,
                   bcVars, chainVars, run_result,
                   runs, fee_rate, blockchain_status, saved, stored>>

\* if not result: return False
RunNoData ==
    /\ pc = "fetch_return"
    /\ result = NoneResult
    /\ pc' = "idle"
    /\ run_result' = PyFalse
    /\ due' = FALSE
    /\ UNCHANGED <<feeVars, cfgVars, sessVars, fetchVars, bcVars, chainVars,
                   runs, fee_rate, blockchain_status, saved, stored>>

\* 2. Calculate dynamic fee
RunTransform ==
    /\ pc = "fetch_return"
    /\ result # NoneResult
    /\ fee_rate' = calculate_fee_rate(result[1])
    /\ pc' = "commit"
    /\ UNCHANGED <<due, feeVars, cfgVars, sessVars, fetchVars, bcVars, chainVars,
                   runs, run_result, blockchain_status, saved, stored>>

\* 4. blockchain_bridge.enabled is False: status stays "disabled"
RunSkipBridge ==
    /\ pc = "commit"
    /\ ~bridge.enabled
    /\ blockchain_tx_hash' = None
    /\ blockchain_status' = "disabled"
    /\ pc' = "report"
    /\ UNCHANGED <<due, feeVars, cfgVars, sessVars, fetchVars, bc_attempt, bc_calls, gas_price,
                   transaction, submitted, receipt, chainVars, runs, run_result, fee_rate,
                   saved, stored>>

(***************************************************************************)
(* BlockchainBridge.send_fee_update                                        *)
(***************************************************************************)
SendStart ==
    /\ pc = "commit"
    /\ bridge.enabled
    /\ bc_attempt' = 0
    /\ bc_calls' = <<>>
    /\ pc' = "bc_gas"
    /\ UNCHANGED <<due, feeVars, cfgVars, sessVars, fetchVars, gas_price, transaction, submitted, receipt,
                   blockchain_tx_hash, chainVars, runVars>>

\* The try block opened only after the index conversion and the gas read.
TryBlockSteps_after_gas_read ==
    {"build_transaction", "get_transaction_count", "sign_transaction", "send_raw_transaction"}

\* The steps of one attempt that stand inside try: ... except Exception
\* (lines 205-234).
TryBlockSteps ==
    {"int", "gas_price", "build_transaction", "get_transaction_count",
     "sign_transaction", "send_raw_transaction"}

\* A step of send_fee_update raises: inside the try block the handler of
\* line 254 takes over; an exception outside it would leave send_fee_update
\* and end the run in the handler of run_oracle_update (return False).
Raised(step) ==
    IF step \in TryBlockSteps
    THEN /\ pc' = "bc_failed"
         /\ UNCHANGED <<run_result, due>>
    ELSE /\ pc' = "idle"
         /\ run_result' = PyFalse
         /\ due' = FALSE

\* int(index_value); gas_price = w3.eth.gas_price
BcGasRead ==
    /\ pc = "bc_gas"
    /\ IF ~IsFinite(result[1])
       THEN /\ Raised("int")
            /\ UNCHANGED <<bc_calls, gas_price>>
       ELSE /\ bc_calls' = Append(bc_calls, "gas_price")
            /\ \/ /\ Raised("gas_price")
                  /\ UNCHANGED gas_price
               \/ \E g \in GasPrices :
                  /\ gas_price' = g
                  /\ pc' = "bc_build"
                  /\ UNCHANGED <<run_result, due>>
    /\ UNCHANGED <<feeVars, cfgVars, sessVars, fetchVars, bc_attempt, transaction, submitted, receipt,
                   blockchain_tx_hash, chainVars, runs, fee_rate, blockchain_status, saved, stored>>

\* The observed price used as it is.
CappedGasPrice_uncapped(observed) == observed

\* min(gas_price, max_gas_price)
CappedGasPrice(observed) == IF max_gas_price < observed THEN max_gas_price ELSE observed

\* The index argument rounded to the nearest integer instead of truncated.
BuiltTransaction_rounds_index(fee, index_value, observed, nonce) ==
    [fee_rate |-> fee, index_value |-> PyRound(index_value.val, Scale),
     gasPrice |-> CappedGasPrice(observed), nonce |-> nonce,
     gas |-> GAS_LIMIT, chainId |-> CHAIN_ID]

\* The dictionary handed to build_transaction, with the call arguments.
BuiltTransaction(fee, index_value, observed, nonce) ==
    [fee_rate |-> fee, index_value |-> IntTrunc(index_value),
     gasPrice |-> CappedGasPrice(observed), nonce |-> nonce,
     gas |-> GAS_LIMIT, chainId |-> CHAIN_ID]

\* The nonce of the transaction built before, kept for the next attempt.
ReadNonce_cached == IF transaction # NoTx THEN transaction.nonce ELSE chain_nonce

\* self.w3.eth.get_transaction_count(self.account.address)
ReadNonce == chain_nonce

\* updateDynamicFeeRate(...).build_transaction({...}): a negative argument
\* is no uint256 and is refused before the nonce is read.
BcBuild ==
    /\ pc = "bc_build"
    /\ IF IntTrunc(result[1]) < 0 \/ fee_rate < 0
       THEN /\ Raised("build_transaction")
            /\ UNCHANGED <<bc_calls, transaction>>
       ELSE /\ bc_calls' = Append(bc_calls, "get_transaction_count")
            /\ \/ /\ Raised("get_transaction_count")
                  /\ UNCHANGED transaction
               \/ /\ transaction' = BuiltTransaction(fee_rate, result[1], gas_price, ReadNonce)
                  /\ pc' = "bc_sign"
                  /\ UNCHANGED <<run_result, due>>
    /\ UNCHANGED <<feeVars, cfgVars, sessVars, fetchVars, bc_attempt, gas_price, submitted, receipt,
                   blockchain_tx_hash, chainVars, runs, fee_rate, blockchain_status, saved, stored>>

\* sign_transaction; send_raw_transaction
BcSignSend ==
    /\ pc = "bc_sign"
    /\ \/ /\ Raised("sign_transaction")
          /\ UNCHANGED <<bc_calls, submitted, tx_count>>
       \/ /\ bc_calls' = Append(bc_calls, "send_raw_transaction")
          /\ \/ /\ Raised("send_raw_transaction")
                /\ UNCHANGED <<submitted, tx_count>>
             \/ /\ submitted' = Append(submitted, transaction)
                /\ tx_count' = tx_count + 1
                /\ pc' = "bc_receipt"
                /\ UNCHANGED <<run_result, due>>
    /\ UNCHANGED <<feeVars, cfgVars, sessVars, fetchVars, bc_attempt, gas_price, transaction, receipt,
                   blockchain_tx_hash, chain_nonce, runs, fee_rate, blockchain_status, saved, stored>>

\* The confirmation-wait error treated as a failed update.
ReceiptResult_wait_error_fails(outcome, tx_hash_hex) ==
    IF outcome = "success" THEN tx_hash_hex ELSE None

\* What send_fee_update returns after the confirmation wait (lines 240-252).
ReceiptResult(outcome, tx_hash_hex) ==
    IF outcome = "success" THEN tx_hash_hex
    ELSE IF outcome = "reverted" THEN None
    ELSE tx_hash_hex

\* The confirmation wait without a handler of its own: its error reaches
\* the retry handler.
BcReceipt_wait_error_retries ==
    /\ pc = "bc_receipt"
    /\ bc_calls' = Append(bc_calls, "wait_for_transaction_receipt")
    /\ \E outcome \in {"success", "reverted", "wait_error"} :
        /\ receipt' = outcome
        /\ blockchain_tx_hash' = IF outcome = "wait_error" THEN blockchain_tx_hash
                                 ELSE ReceiptResult(outcome, TxHashHex(tx_count))
        /\ pc' = IF outcome = "wait_error" THEN "bc_failed" ELSE "bc_return"
        /\ IF outcome = "wait_error"
           THEN chain_nonce' \in {chain_nonce, chain_nonce + 1}
           ELSE chain_nonce' = chain_nonce + 1
    /\ UNCHANGED <<due, feeVars, cfgVars, sessVars, fetchVars, bc_attempt, gas_price, transaction,
                   submitted, tx_count, runVars>>

\* wait_for_transaction_receipt(tx_hash, timeout=120): a receipt with status
\* 1 or 0, or an error / timeout while the transaction may or may not have
\* been mined.
BcReceipt ==
    /\ pc = "bc_receipt"
    /\ bc_calls' = Append(bc_calls, "wait_for_transaction_receipt")
    /\ \E outcome \in {"success", "reverted", "wait_error"} :
        /\ receipt' = outcome
        /\ blockchain_tx_hash' = ReceiptResult(outcome, TxHashHex(tx_count))
        /\ IF outcome = "wait_error"
           THEN chain_nonce' \in {chain_nonce, chain_nonce + 1}
           ELSE chain_nonce' = chain_nonce + 1
    /\ pc' = "bc_return"
    /\ UNCHANGED <<due, feeVars, cfgVars, sessVars, fetchVars, bc_attempt, gas_price, transaction,
                   submitted, tx_count, runVars>>

\* for attempt in range(OracleConfig.BLOCKCHAIN_RETRY_COUNT)
BcLoopContinues(a) == a + 1 < BLOCKCHAIN_RETRY_COUNT

\* The wait made after the last attempt as well.
BcRetriesLeft_after_last(a) == a < BLOCKCHAIN_RETRY_COUNT

\* if attempt < OracleConfig.BLOCKCHAIN_RETRY_COUNT - 1
BcRetriesLeft(a) == a < BLOCKCHAIN_RETRY_COUNT - 1

\* The bridge switching itself off when all attempts failed.
BcHandleFailure_disables ==
    /\ pc = "bc_failed"
    /\ bc_calls' = IF BcRetriesLeft(bc_attempt) THEN Append(bc_calls, "sleep") ELSE bc_calls
    /\ IF BcRetriesLeft(bc_attempt) /\ chain_nonce < tx_count
       THEN chain_nonce' \in {chain_nonce, chain_nonce + 1}
       ELSE UNCHANGED chain_nonce
    /\ IF BcLoopContinues(bc_attempt)
       THEN /\ bc_attempt' = bc_attempt + 1
            /\ pc' = "bc_gas"
            /\ UNCHANGED blockchain_tx_hash
       ELSE /\ blockchain_tx_hash' = None
            /\ pc' = "bc_return"
            /\ UNCHANGED bc_attempt
    /\ bridge' = IF BcLoopContinues(bc_attempt) THEN bridge ELSE [bridge EXCEPT !.enabled = FALSE]
    /\ UNCHANGED <<due, feeVars, config, init_calls, sessVars, fetchVars, gas_price, transaction, submitted,
                   receipt, tx_count, runVars>>

\* except Exception: sleep BLOCKCHAIN_RETRY_DELAY unless this was the last
\* attempt, then the next attempt, or return None when the loop is over.
\* While the bridge sleeps, a transaction of the oracle that was still
\* pending may be mined, which raises the account's transaction count.
BcHandleFailure ==
    /\ pc = "bc_failed"
    /\ bc_calls' = IF BcRetriesLeft(bc_attempt) THEN Append(bc_calls, "sleep") ELSE bc_calls
    /\ IF BcRetriesLeft(bc_attempt) /\ chain_nonce < tx_count
       THEN chain_nonce' \in {chain_nonce, chain_nonce + 1}
       ELSE UNCHANGED chain_nonce
    /\ IF BcLoopContinues(bc_attempt)
       THEN /\ bc_attempt' = bc_attempt + 1
            /\ pc' = "bc_gas"
            /\ UNCHANGED blockchain_tx_hash
       ELSE /\ blockchain_tx_hash' = None
            /\ pc' = "bc_return"
            /\ UNCHANGED bc_attempt
    /\ UNCHANGED <<due, feeVars, cfgVars, sessVars, fetchVars, gas_price, transaction, submitted,
                   receipt, tx_count, runVars>>

(***************************************************************************)
(* run_oracle_update, after the ledger step                                *)
(***************************************************************************)
\* None not counted as a missing hash.
StatusOf_none_is_success(tx_hash) == IF tx_hash # EmptyStr THEN "success" ELSE "failed"

\* if blockchain_tx_hash: "success" else: "failed"
StatusOf(tx_hash) == IF tx_hash # None /\ tx_hash # EmptyStr THEN "success" ELSE "failed"

\* The ledger step started again when every attempt of it raised.
RunAfterSend_retries_commit ==
    /\ pc = "bc_return"
    /\ blockchain_status' = StatusOf(blockchain_tx_hash)
    /\ pc' = IF blockchain_tx_hash = None /\ receipt = None THEN "commit" ELSE "report"
    /\ UNCHANGED <<due, feeVars, cfgVars, sessVars, fetchVars, bcVars, chainVars,
                   runs, run_result, fee_rate, saved, stored>>

RunAfterSend ==
    /\ pc = "bc_return"
    /\ blockchain_status' = StatusOf(blockchain_tx_hash)
    /\ pc' = "report"
    /\ UNCHANGED <<due, feeVars, cfgVars, sessVars, fetchVars, bcVars, chainVars,
                   runs, run_result, fee_rate, saved, stored>>

\* 6. data_record
DataRecord(res, fee, tx_hash, status) ==
    [index_value |-> res[1], index_text |-> res[2], fee_rate_bp |-> fee,
     fee_explanation |-> get_fee_explanation(res[1]),
     blockchain_tx_hash |-> IF tx_hash = None THEN EmptyStr ELSE tx_hash,
     blockchain_status |-> status, session_age_minutes |-> session_age * 60]

\* storage.save_oracle_data(data_record); return True
RunReport ==
    /\ pc = "report"
    /\ saved' = Append(saved, DataRecord(result, fee_rate, blockchain_tx_hash, blockchain_status))
    /\ stored' = stored + 1
    /\ run_result' = PyTrue
    /\ pc' = "idle"
    /\ due' = FALSE
    /\ UNCHANGED <<feeVars, cfgVars, sessVars, fetchVars, bcVars, chainVars,
                   runs, fee_rate, blockchain_status>>

Next ==
    \/ Construct
    \/ JobDue
    \/ Trigger
    \/ FetchHumanDelay
    \/ FetchRequest
    \/ FetchHandleFailure
    \/ RunNoData
    \/ RunTransform
    \/ RunSkipBridge
    \/ SendStart
    \/ BcGasRead
    \/ BcBuild
    \/ BcSignSend
    \/ BcReceipt
    \/ BcHandleFailure
    \/ RunAfterSend
    \/ RunReport

Spec == Init /\ [][Next]_vars

\* The steps of a run: each of them is a call that returns or times out
\* (time.sleep, session.get with timeout=30, the web3 calls,
\* wait_for_transaction_receipt with timeout=120) or plain computation.
RunStep ==
    \/ FetchHumanDelay
    \/ FetchRequest
    \/ FetchHandleFailure
    \/ RunNoData
    \/ RunTransform
    \/ RunSkipBridge
    \/ SendStart
    \/ BcGasRead
    \/ BcBuild
    \/ BcSignSend
    \/ BcReceipt
    \/ BcHandleFailure
    \/ RunAfterSend
    \/ RunReport

NextLive ==
    \/ Construct
    \/ JobDueLive
    \/ TriggerLive
    \/ RunStep

\* The program with every step of a run eventually returning; every such
\* step moves pc.
SpecLive == Init /\ [][NextLive]_vars /\ WF_pc(RunStep)

(***************************************************************************)
(* Properties                                                              *)
(***************************************************************************)
Count(seq, x) == Cardinality({ i \in 1..Len(seq) : seq[i] = x })

\* Python x <= y on two floats.
FloatOrdLe(x, y) ==
    /\ x.cls # "nan"
    /\ y.cls # "nan"
    /\ \/ x.cls = "-inf"
       \/ y.cls = "inf"
       \/ (IsFinite(x) /\ IsFinite(y) /\ x.val <= y.val)

InBand(x) == IsFinite(x) /\ lower_bound < x.val /\ x.val < upper_bound

FeeInRange(index_value, fee) ==
    /\ fee \in MIN_FEE_RATE..MAX_FEE_RATE
    /\ FloatLe(index_value, 0) => fee = DEFAULT_FEE_RATE

\* C1: for every index value the calculator returns an integer fee within
\* [MIN_FEE_RATE, MAX_FEE_RATE]; for an index value <= 0 it returns exactly
\* DEFAULT_FEE_RATE, which lies in that range.
FeeRateWithinBounds ==
    /\ DEFAULT_FEE_RATE \in MIN_FEE_RATE..MAX_FEE_RATE
    /\ fee_pc \in {"second", "done"} => FeeInRange(index_a, fee_a)
    /\ fee_pc = "done" => FeeInRange(index_b, fee_b)

FeeRateWithinBoundsWitness ==
    /\ fee_pc = "done"
    /\ IsFinite(index_a) /\ index_a.val <= 0 /\ fee_a = DEFAULT_FEE_RATE
    /\ InBand(index_b) /\ MIN_FEE_RATE < fee_b /\ fee_b < MAX_FEE_RATE

\* C2: every invocation of run_oracle_update that has returned has handed
\* exactly one record to save_oracle_data, also when the extraction
\* returned None.
EveryRunHandsOneRecord ==
    (pc = "idle" /\ runs > 0) => Len(saved) = 1

\* C3: when the confirmation wait failed after a submission, the returned
\* value and the recorded status differ from what the same transaction
\* yields when its receipt confirms with success status.
SubmittedDistinctFromConfirmed ==
    (pc = "report" /\ receipt = "wait_error") =>
        <<blockchain_tx_hash, blockchain_status>>
            # <<TxHashHex(tx_count), "success">>

\* C4: when the confirmation wait fails after a submission, send_fee_update
\* returns the identifier of that transaction without a further attempt,
\* the ledger status is "success" (not "failed"), the record carries the
\* identifier and run_oracle_update returns True.
WaitErrorIsNotFailure ==
    (receipt = "wait_error" /\ pc \in {"bc_return", "report", "idle"}) =>
        /\ blockchain_tx_hash = TxHashHex(tx_count)
        /\ Len(submitted) = 1
        /\ bc_calls[Len(bc_calls)] = "wait_for_transaction_receipt"
        /\ pc \in {"report", "idle"} => blockchain_status = "success"
        /\ pc = "idle" =>
            /\ run_result = PyTrue
            /\ Len(saved) = 1
            /\ saved[1].blockchain_status # "failed"
            /\ saved[1].blockchain_tx_hash = TxHashHex(tx_count)

WaitErrorIsNotFailureWitness ==
    /\ pc = "idle"
    /\ receipt = "wait_error"
    /\ bc_attempt > 0
    /\ run_result = PyTrue
    /\ Len(saved) = 1
    /\ saved[1].blockchain_status = "success"

\* C5: one extraction issues at most MAX_RETRIES requests, stops at the
\* first attempt that succeeds, returns None exactly when MAX_RETRIES
\* attempts failed, and every kind of failure is caught.
FetchRetryContract ==
    LET requests == Count(fetch_calls, "request")
    IN  /\ requests <= MAX_RETRIES
        /\ pc = "fetch_failed" =>
              fetch_error \in {"NetworkError", "HTTPError", "NotFound", "ParseError"}
        /\ pc = "fetch_return" =>
            /\ (result = NoneResult) <=> (requests = MAX_RETRIES /\ fetch_error # None)
            /\ result # NoneResult =>
                /\ Len(result) = 2
                /\ fetch_error = None
                /\ fetch_calls[Len(fetch_calls)] = "request"
                /\ Count(fetch_calls, "sleep") = requests - 1

FetchRetryContractWitness ==
    /\ pc = "fetch_return"
    /\ result = NoneResult
    /\ Count(fetch_calls, "request") = MAX_RETRIES
    /\ fetch_error = "ParseError"

\* C6: when the RPC endpoint, the private key or the contract address is
\* absent (or the endpoint is the placeholder), the bridge is disabled, the
\* ledger step of every run yields "disabled", and the bridge makes no
\* network call and no retry delay.
DisabledBridgeMakesNoCalls ==
    (/\ pc # "new"
     /\ \/ config.rpc_url \in {"", "YOUR_API_KEY"}
        \/ config.private_key = ""
        \/ config.contract_address = "") =>
        /\ ~bridge.enabled
        /\ init_calls = 0
        /\ bc_calls = <<>>
        /\ submitted = <<>>
        /\ tx_count = 0
        /\ pc \notin {"bc_gas", "bc_build", "bc_sign", "bc_receipt", "bc_failed", "bc_return"}
        /\ pc = "report" => (blockchain_status = "disabled" /\ blockchain_tx_hash = None)
        /\ (pc = "idle" /\ saved # <<>>) =>
            /\ saved[1].blockchain_status = "disabled"
            /\ saved[1].blockchain_tx_hash = EmptyStr

DisabledBridgeMakesNoCallsWitness ==
    /\ pc = "idle"
    /\ config.web3
    /\ config.rpc_url = "url"
    /\ config.private_key = "key"
    /\ config.contract_address = ""
    /\ runs = MaxRuns
    /\ Len(saved) = 1
    /\ saved[1].blockchain_status = "disabled"

\* C7: the gas price of every built transaction is the smaller of the
\* observed price and the cap, so never above the cap, and an attempt that
\* observed a price above the cap goes on to build, sign and submit.
GasPriceNeverAboveCap ==
    LET cap == MAX_GAS_PRICE_GWEI * WeiPerGwei
        capped == IF gas_price > cap THEN cap ELSE gas_price
    IN  /\ pc \in {"bc_sign", "bc_receipt"} => transaction.gasPrice = capped
        /\ pc = "bc_receipt" => submitted[Len(submitted)].gasPrice = capped
        /\ \A i \in 1..Len(submitted) : submitted[i].gasPrice <= cap

GasPriceNeverAboveCapWitness ==
    /\ pc = "bc_receipt"
    /\ gas_price = 80 * WeiPerGwei
    /\ Len(submitted) = 1
    /\ submitted[1].gasPrice = 50 * WeiPerGwei

\* C8: the fee at the baseline index value is DEFAULT_FEE_RATE within one
\* basis point.
BaselineFeeIsDefault ==
    (fee_pc = "done" /\ index_a = Fin(INDEX_BASELINE * Scale)) =>
        (fee_a - DEFAULT_FEE_RATE) \in (-1)..1

\* C9: the calculator is non-increasing on positive inputs: 0 < a <= b
\* implies fee(a) >= fee(b), across both clamp thresholds.
FeeNonIncreasing ==
    (/\ fee_pc = "done"
     /\ FloatGt(index_a, 0)
     /\ FloatGt(index_b, 0)
     /\ FloatOrdLe(index_a, index_b)) => fee_a >= fee_b

FeeNonIncreasingWitness ==
    /\ fee_pc = "done"
    /\ IsFinite(index_a) /\ 0 < index_a.val /\ index_a.val < lower_bound
    /\ InBand(index_b)
    /\ fee_a = MAX_FEE_RATE
    /\ fee_b < fee_a

\* C10 as stated: inside the band a < b implies fee(a) > fee(b) for the
\* returned integer fees.
FeeStrictlyDecreasingInBand ==
    (/\ fee_pc = "done"
     /\ InBand(index_a)
     /\ InBand(index_b)
     /\ index_a.val < index_b.val) => fee_a > fee_b

\* C10 amended: inside the band a < b implies fee(a) >= fee(b), and
\* fee(a) > fee(b) whenever the unrounded fees differ by more than one
\* basis point, (b - a) * (MAX - MIN) > upper_bound - lower_bound.
FeeDecreasingInBandByGap ==
    (/\ fee_pc = "done"
     /\ InBand(index_a)
     /\ InBand(index_b)
     /\ index_a.val < index_b.val) =>
        /\ fee_a >= fee_b
        /\ (index_b.val - index_a.val) * (MAX_FEE_RATE - MIN_FEE_RATE)
              > (INDEX_BASELINE * 2 * Scale - (INDEX_BASELINE * Scale * 33) \div 100)
           => fee_a > fee_b

FeeDecreasingInBandByGapWitness ==
    /\ fee_pc = "done"
    /\ InBand(index_a)
    /\ InBand(index_b)
    /\ index_b.val - index_a.val = 2 * GridStep
    /\ fee_a = fee_b + 1

\* C11: the calculator returns MIN_FEE_RATE for every index value
\* >= 2 * BASELINE and MAX_FEE_RATE for every value with
\* 0 < value <= 0.33 * BASELINE, both thresholds included: 3000 gives MIN
\* and 495 gives MAX.
ExtremesClampInclusive ==
    LET high == 2 * INDEX_BASELINE * Scale
        low == (33 * INDEX_BASELINE * Scale) \div 100
        Extreme(index_value, fee) ==
            /\ FloatGe(index_value, high) => fee = MIN_FEE_RATE
            /\ (FloatGt(index_value, 0) /\ FloatLe(index_value, low)) => fee = MAX_FEE_RATE
            /\ index_value = Fin(3000 * Scale) => fee = MIN_FEE_RATE
            /\ index_value = Fin(495 * Scale) => fee = MAX_FEE_RATE
    IN  /\ fee_pc \in {"second", "done"} => Extreme(index_a, fee_a)
        /\ fee_pc = "done" => Extreme(index_b, fee_b)

ExtremesClampInclusiveWitness ==
    /\ fee_pc = "done"
    /\ index_a = Fin(3000 * Scale)
    /\ fee_a = MIN_FEE_RATE
    /\ index_b = Fin(495 * Scale)
    /\ fee_b = MAX_FEE_RATE

\* C12: clamping a clamped value again changes nothing, and the boundary
\* check after the rounding leaves the rounded value of the first clamp as
\* it is, for every value the interpolation formula can produce (inside and
\* outside the band, nan and the infinities).
ClampIdempotent ==
    fee_pc \in {"second", "done"} =>
        LET den == INDEX_BASELINE * 2 * Scale - (33 * INDEX_BASELINE * Scale) \div 100
        IN  /\ Clamp(clamp_a.clamped, den) = clamp_a.clamped
            /\ clamp_a.checked = clamp_a.fee_rate_int
            /\ clamp_a.fee_rate_int \in MIN_FEE_RATE..MAX_FEE_RATE
            /\ IsFinite(clamp_a.clamped)
            /\ clamp_a.clamped.val >= MIN_FEE_RATE * den
            /\ clamp_a.clamped.val <= MAX_FEE_RATE * den

ClampIdempotentWitness ==
    /\ fee_pc = "done"
    /\ IsFinite(clamp_a.fee_rate)
    /\ clamp_a.fee_rate.val < MIN_FEE_RATE * (upper_bound - lower_bound)
    /\ clamp_a.clamped # clamp_a.fee_rate
    /\ clamp_a.checked = MIN_FEE_RATE

\* C13: every request to the source, the first one and every retry, comes
\* directly after a human delay of MIN_DELAY to MAX_DELAY seconds made in
\* the same attempt.
HumanDelayBeforeEveryRequest ==
    /\ \A i \in 1..Len(fetch_calls) :
          fetch_calls[i] = "request" => (i > 1 /\ fetch_calls[i - 1] = "human_delay")
    /\ Count(fetch_calls, "human_delay") >= Count(fetch_calls, "request")
    /\ pc = "fetch_request" =>
          /\ delay >= MIN_DELAY
          /\ delay <= MAX_DELAY
          /\ fetch_calls[Len(fetch_calls)] = "human_delay"
          /\ Count(fetch_calls, "human_delay") = attempt + 1

HumanDelayBeforeEveryRequestWitness ==
    /\ pc = "fetch_failed"
    /\ attempt = MAX_RETRIES - 1
    /\ Count(fetch_calls, "human_delay") = MAX_RETRIES
    /\ Count(fetch_calls, "request") = MAX_RETRIES
    /\ fetch_calls[1] = "human_delay"

\* C14: a failed attempt that is not the last is followed by exactly one
\* RETRY_DELAY wait and then the next attempt; the last failed attempt and a
\* successful attempt are followed by no wait; an extraction in which every
\* attempt fails waits MAX_RETRIES - 1 times.
FetchWaitsOnlyBetweenAttempts ==
    /\ Count(fetch_calls, "sleep") = attempt
    /\ \A i \in 1..Len(fetch_calls) :
          fetch_calls[i] = "sleep" =>
              /\ i > 1
              /\ fetch_calls[i - 1] = "request"
              /\ i < Len(fetch_calls) => fetch_calls[i + 1] = "human_delay"
    /\ (pc \notin {"fetch_delay", "fetch_request"} /\ fetch_calls # <<>>) =>
          fetch_calls[Len(fetch_calls)] = "request"
    /\ (pc = "fetch_delay" /\ attempt > 0) => fetch_calls[Len(fetch_calls)] = "sleep"
    /\ (pc = "fetch_return" /\ result = NoneResult) =>
          Count(fetch_calls, "sleep") = MAX_RETRIES - 1

FetchWaitsOnlyBetweenAttemptsWitness ==
    /\ pc = "fetch_return"
    /\ result = NoneResult
    /\ attempt = MAX_RETRIES - 1
    /\ Count(fetch_calls, "sleep") = MAX_RETRIES - 1
    /\ fetch_calls[Len(fetch_calls)] = "request"

SendNeverRaises ==
    /\ pc = "bc_return" =>
          \/ blockchain_tx_hash = None
          \/ \E n \in 1..tx_count : blockchain_tx_hash = TxHashHex(n)
    /\ (pc = "idle" /\ runs > 0 /\ result # NoneResult /\ bridge.enabled) =>
          /\ run_result = PyTrue
          /\ Len(saved) = 1
          /\ saved[1].blockchain_status \in {"success", "failed"}

SendNeverRaisesWitness ==
    /\ pc = "idle"
    /\ runs > 0
    /\ result # NoneResult
    /\ bridge.enabled
    /\ run_result = PyTrue
    /\ Count(bc_calls, "gas_price") = BLOCKCHAIN_RETRY_COUNT
    /\ Count(bc_calls, "get_transaction_count") = BLOCKCHAIN_RETRY_COUNT - 1
    /\ Count(bc_calls, "send_raw_transaction") = 1
    /\ submitted = <<>>
    /\ saved[1].blockchain_status = "failed"

\* C17: with the bridge enabled, a failed attempt that is not the last is
\* followed by one BLOCKCHAIN_RETRY_DELAY wait and the next attempt; there
\* are at most BLOCKCHAIN_RETRY_COUNT attempts; None is returned only after
\* all of them raised or after a receipt with a failure status; the last
\* failed attempt is followed by no wait.
CommitRetryContract ==
    /\ bc_attempt < BLOCKCHAIN_RETRY_COUNT
    /\ Count(bc_calls, "sleep") = bc_attempt
    /\ Count(bc_calls, "gas_price") <= BLOCKCHAIN_RETRY_COUNT
    /\ Count(bc_calls, "send_raw_transaction") <= BLOCKCHAIN_RETRY_COUNT
    /\ (pc = "bc_gas" /\ bc_attempt > 0) => bc_calls[Len(bc_calls)] = "sleep"
    /\ (pc = "bc_return" /\ blockchain_tx_hash = None) =>
          \/ receipt = "reverted"
          \/ /\ receipt = None
             /\ bc_attempt = BLOCKCHAIN_RETRY_COUNT - 1
             /\ Count(bc_calls, "sleep") = BLOCKCHAIN_RETRY_COUNT - 1

CommitRetryContractWitness ==
    /\ pc = "bc_return"
    /\ blockchain_tx_hash = None
    /\ receipt = None
    /\ Count(bc_calls, "sleep") = BLOCKCHAIN_RETRY_COUNT - 1
    /\ Count(bc_calls, "gas_price") = BLOCKCHAIN_RETRY_COUNT

\* The calls made since the last retry sleep, that is, in the current attempt.
AttemptCalls(calls) ==
    LET sleeps == { i \in 1..Len(calls) : calls[i] = "sleep" }
        start == IF sleeps = {} THEN 0
                 ELSE CHOOSE i \in sleeps : \A j \in sleeps : j <= i
    IN  { calls[k] : k \in (start + 1)..Len(calls) }

\* C18: the gas price and the nonce of a transaction are read in the attempt
\* that builds it: the transaction carries the account's transaction count
\* as it is at that attempt, never the one an earlier attempt saw.
FreshReadsInEveryAttempt ==
    pc \in {"bc_sign", "bc_receipt"} =>
        /\ "gas_price" \in AttemptCalls(bc_calls)
        /\ "get_transaction_count" \in AttemptCalls(bc_calls)
        /\ transaction.nonce = chain_nonce
        /\ transaction.gasPrice = CappedGasPrice(gas_price)

FreshReadsInEveryAttemptWitness ==
    /\ pc = "bc_sign"
    /\ bc_attempt = 1
    /\ Count(bc_calls, "get_transaction_count") = 2
    /\ Count(bc_calls, "gas_price") = 2
    /\ chain_nonce = tx_count
    /\ chain_nonce > 0
    /\ transaction.nonce = chain_nonce

\* C19: a receipt with a failure status ends the commit at once with a
\* failed outcome that carries the hash of the reverted transaction, in the
\* returned value and in the run record; a receipt with a success status
\* gives the confirmed outcome with the hash.
RevertedCarriesTxId ==
    /\ (pc = "bc_return" /\ receipt \in {"reverted", "success"}) =>
          blockchain_tx_hash = TxHashHex(tx_count)
    /\ (saved # <<>> /\ receipt = "reverted") =>
          /\ saved[1].blockchain_status = "failed"
          /\ saved[1].blockchain_tx_hash = TxHashHex(tx_count)
    /\ (saved # <<>> /\ receipt = "success") =>
          /\ saved[1].blockchain_status = "success"
          /\ saved[1].blockchain_tx_hash = TxHashHex(tx_count)

\* C20: runs never overlap: while a run is in progress no other run starts,
\* also when a trigger comes due during the run, so the nonce read and the
\* submission of one run are never interleaved with those of another.
RunsNeverOverlap ==
    [][pc \notin {"new", "idle"} =>
          /\ runs' = runs
          /\ pc = "bc_sign" => (transaction' = transaction /\ chain_nonce' = chain_nonce)]_vars

RunsNeverOverlapWitness ==
    /\ due
    /\ pc = "bc_sign"
    /\ runs = 1
    /\ transaction.nonce = chain_nonce

\* C21: the extraction returns a value only when the parsed number is
\* finite and positive; zero, a negative number, nan and the infinities are
\* rejected, so none of them reaches the fee calculation or the bridge.
FetcherYieldsFinitePositive ==
    result # NoneResult => (IsFinite(result[1]) /\ result[1].val > 0)

\* C22: a run whose extraction returned None ends there: no fee is
\* calculated, send_fee_update is not called, no transaction is built or
\* submitted, and the run has made at most MAX_RETRIES requests.
NoDataEndsTheRun ==
    /\ Count(fetch_calls, "request") <= MAX_RETRIES
    /\ (result = NoneResult /\ pc \notin {"new", "fetch_delay", "fetch_request", "fetch_failed"}) =>
          /\ pc \in {"fetch_return", "idle"}
          /\ fee_rate = 0
          /\ bc_calls = <<>>
          /\ transaction = NoTx
          /\ submitted = <<>>
          /\ blockchain_status = None
          /\ saved = <<>>

NoDataEndsTheRunWitness ==
    /\ pc = "idle"
    /\ runs = 2
    /\ result = NoneResult
    /\ Count(fetch_calls, "request") = MAX_RETRIES
    /\ tx_count = 1
    /\ transaction = NoTx

\* C23: every transaction built in a run whose extraction returned v calls
\* updateDynamicFeeRate with calculate_fee_rate(v) and with v truncated
\* toward zero, in every attempt of the run.
TransactionArguments ==
    LET v == result[1]
        ArgsOf(tx) ==
            /\ tx.fee_rate = calculate_fee_rate(v)
            /\ tx.fee_rate = fee_rate
            /\ tx.index_value >= 0
            /\ v.val >= 0 => (tx.index_value * Scale <= v.val /\ v.val < (tx.index_value + 1) * Scale)
            /\ v.val < 0 => (tx.index_value = 0 /\ v.val > -Scale)
    IN  /\ transaction # NoTx => (bridge.enabled /\ result # NoneResult /\ IsFinite(v) /\ ArgsOf(transaction))
        /\ \A i \in 1..Len(submitted) : ArgsOf(submitted[i])

TransactionArgumentsWitness ==
    /\ pc = "bc_sign"
    /\ bc_attempt = BLOCKCHAIN_RETRY_COUNT - 1
    /\ Count(bc_calls, "get_transaction_count") = BLOCKCHAIN_RETRY_COUNT
    /\ result[1].val > transaction.index_value * Scale
    /\ transaction.index_value = 999
    /\ transaction.fee_rate = calculate_fee_rate(result[1])

\* C24: after construction the enabled flag of the bridge never changes,
\* whatever the runs and the calls of send_fee_update do.
EnabledNeverChanges ==
    [][pc # "new" => bridge' = bridge]_vars

EnabledNeverChangesWitness ==
    /\ bridge.enabled
    /\ runs = 2
    /\ stored = 1
    /\ pc = "bc_return"
    /\ receipt = None
    /\ blockchain_tx_hash = None
    /\ Count(bc_calls, "gas_price") = BLOCKCHAIN_RETRY_COUNT
    /\ Count(bc_calls, "get_transaction_count") = 0

\* C25: a run whose extraction succeeded hands one record to
\* save_oracle_data whatever the ledger step gave; its status is "disabled"
\* exactly when the bridge is disabled, "failed" exactly when send_fee_update
\* returned no hash, and it carries a non-empty hash exactly when the status
\* is "success".
RecordReflectsLedgerOutcome ==
    (pc = "idle" /\ runs > 0 /\ result # NoneResult) =>
        /\ Len(saved) = 1
        /\ saved[1].blockchain_status \in {"disabled", "failed", "success"}
        /\ saved[1].blockchain_status = "disabled" <=> ~bridge.enabled
        /\ saved[1].blockchain_status = "failed" <=> (bridge.enabled /\ blockchain_tx_hash = None)
        /\ saved[1].blockchain_tx_hash # EmptyStr <=> saved[1].blockchain_status = "success"
        /\ saved[1].blockchain_status = "success" => saved[1].blockchain_tx_hash = blockchain_tx_hash

RecordReflectsLedgerOutcomeWitness ==
    /\ pc = "idle"
    /\ runs > 0
    /\ result # NoneResult
    /\ receipt = "reverted"
    /\ Len(saved) = 1
    /\ saved[1].blockchain_status = "failed"
    /\ saved[1].blockchain_tx_hash = EmptyStr

\* C26: one call of send_fee_update submits at most one transaction: after
\* a successful send_raw_transaction the call returns, whatever the receipt
\* or the wait gives, and no attempt follows.
AtMostOneSubmissionPerCall ==
    /\ Len(submitted) <= 1
    /\ Count(bc_calls, "wait_for_transaction_receipt") <= 1
    /\ submitted # <<>> =>
          /\ pc \in {"bc_receipt", "bc_return", "report", "idle"}
          /\ bc_calls[Len(bc_calls)] =
                IF pc = "bc_receipt" THEN "send_raw_transaction" ELSE "wait_for_transaction_receipt"

AtMostOneSubmissionPerCallWitness ==
    /\ pc = "bc_return"
    /\ Len(submitted) = 1
    /\ bc_attempt = 1
    /\ receipt = "wait_error"
    /\ Count(bc_calls, "send_raw_transaction") = 2

\* C27: every run terminates: when each step of a run eventually returns,
\* a run that was started comes back to idle, after at most MAX_RETRIES
\* extraction attempts and at most BLOCKCHAIN_RETRY_COUNT commit attempts.
EveryRunTerminates ==
    /\ [](attempt < MAX_RETRIES /\ bc_attempt < BLOCKCHAIN_RETRY_COUNT)
    /\ (pc \notin {"new", "idle"}) ~> (pc = "idle")

EveryRunTerminatesWitness ==
    /\ pc = "idle"
    /\ runs > 0
    /\ run_result = PyTrue
    /\ attempt = MAX_RETRIES - 1
    /\ bc_attempt = BLOCKCHAIN_RETRY_COUNT - 1
    /\ receipt = None
    /\ Len(saved) = 1

====
